---- MODULE Spec2Model ----
(***************************************************************************)
(* Combat-effect resolution (src/src/model/effect.rs): Effect::process and *)
(* the four effect processors acting on the simulation state, and the      *)
(* ballistic solver aim_parabollically.                                    *)
(*                                                                         *)
(* Coord, Time and Hp are one float type. min_by_key at effect.rs:175      *)
(* needs Ord, so it is a NaN-excluding wrapper around f32. Its values are  *)
(* modelled as binary floats m * 2^e with a MantBits-bit mantissa,         *)
(* truncating; a non-finite result either panics (a checking wrapper) or   *)
(* is carried as NaN (an unchecked build): nan_panics says which.          *)
(***************************************************************************)
EXTENDS Integers, Sequences, FiniteSets, TLC

VARIABLES
    model,       \* logic.model: units, projectiles, particles, id_gen, gravity
    pre,         \* logic.model as it was when the last call was made
    last,        \* the last Effect::process call and how it ended
    nan_panics,  \* whether the Coord wrapper panics on a non-finite value
    aimIn,       \* arguments of a direct aim_parabollically call
    aimOut,      \* its result
    aimDone      \* whether it was made

vars == <<model, pre, last, nan_panics, aimIn, aimOut, aimDone>>

\* ------------------------------------------------------------ Coord floats
MantBits == 14
Hi == 2 ^ MantBits
Lo == 2 ^ (MantBits - 1)

Abs(n) == IF n < 0 THEN -n ELSE n
Sgn(n) == IF n < 0 THEN -1 ELSE 1

NaN == [m |-> 0, e |-> 0, nan |-> TRUE]
Zero == [m |-> 0, e |-> 0, nan |-> FALSE]

RECURSIVE NormAbs(_, _)
\* a * 2^e with a shifted into Lo..Hi-1 (in steps of 6 bits, then of 1).
NormAbs(a, e) ==
    IF a >= Hi * 64 THEN NormAbs(a \div 64, e + 6)
    ELSE IF a >= Hi THEN NormAbs(a \div 2, e + 1)
    ELSE IF a * 64 < Lo THEN NormAbs(a * 64, e - 6)
    ELSE IF a < Lo THEN NormAbs(a * 2, e - 1)
    ELSE [m |-> a, e |-> e]

\* The float nearest below (in magnitude) m * 2^e.
Real(m, e) ==
    IF m = 0 THEN Zero
    ELSE LET n == NormAbs(Abs(m), e)
         IN  [m |-> Sgn(m) * n.m, e |-> n.e, nan |-> FALSE]

\* Coord::new(n) for a whole number n
New(n) == Real(n, 0)

FNeg(a) == [a EXCEPT !.m = -a.m]
FAbs(a) == [a EXCEPT !.m = Abs(a.m)]

\* a * b: the product of two mantissas has 2 * MantBits bits, or one less.
FMul(a, b) ==
    CASE a.nan \/ b.nan -> NaN
      [] a.m = 0 \/ b.m = 0 -> Zero
      [] OTHER ->
           LET p == Abs(a.m) * Abs(b.m)
               k == IF p >= Hi * Lo THEN MantBits ELSE MantBits - 1
           IN  [m |-> Sgn(a.m) * Sgn(b.m) * (p \div (2 ^ k)),
                e |-> a.e + b.e + k, nan |-> FALSE]

\* a / b. A division by zero is not finite: 0 / 0 is NaN, and x / 0 (which
\* the code never computes: it divides by x*x + y*y, by a non-zero vx and by a
\* non-zero t only) is folded into the same non-finite value.
FDiv(a, b) ==
    CASE a.nan \/ b.nan -> NaN
      [] b.m = 0 -> NaN
      [] a.m = 0 -> Zero
      [] OTHER ->
           LET q == (Abs(a.m) * Hi) \div Abs(b.m)
               k == IF q >= Hi THEN 1 ELSE 0
           IN  [m |-> Sgn(a.m) * Sgn(b.m) * (q \div (2 ^ k)),
                e |-> a.e - b.e - MantBits + k, nan |-> FALSE]

\* a + b, the smaller operand aligned to the larger one.
FAdd(a, b) ==
    CASE a.nan \/ b.nan -> NaN
      [] a.m = 0 -> b
      [] b.m = 0 -> a
      [] OTHER ->
           LET hi == IF a.e >= b.e THEN a ELSE b
               lo == IF a.e >= b.e THEN b ELSE a
               d  == hi.e - lo.e
           IN  IF d >= MantBits THEN hi
               ELSE Real(hi.m * (2 ^ d) + lo.m, lo.e)

RECURSIVE IsqrtB(_, _, _)
\* The integer square root of n, by bisection: lo^2 <= n < hi^2.
IsqrtB(n, lo, hi) ==
    IF hi - lo <= 1 THEN lo
    ELSE LET mid == (lo + hi) \div 2
         IN  IF mid * mid <= n THEN IsqrtB(n, mid, hi) ELSE IsqrtB(n, lo, mid)

\* sqrt(a); the square root of a negative value is NaN.
FSqrt(a) ==
    CASE a.nan -> NaN
      [] a.m = 0 -> Zero
      [] a.m < 0 -> NaN
      [] a.m > 0 ->
           LET k == IF (a.e - (MantBits - 1)) % 2 = 0
                    THEN MantBits - 1 ELSE MantBits - 2
           IN  Real(IsqrtB(a.m * (2 ^ k), 0, Hi), (a.e - k) \div 2)

FSub(a, b) == FAdd(a, FNeg(b))

\* Comparisons; every comparison with NaN is false.
FLt(a, b) == LET d == FSub(a, b) IN ~d.nan /\ d.m < 0
FGt(a, b) == FLt(b, a)
FLe(a, b) == LET d == FSub(a, b) IN ~d.nan /\ d.m <= 0

\* f32::signum: 1.0 for a positive number and +0.0, -1.0 for a negative one.
FSignum(a) == IF a.nan THEN NaN ELSE IF a.m < 0 THEN New(-1) ELSE New(1)

\* ------------------------------------------------------- ballistic solver
\* Option<(Velocity, Time)>, or the panic of the Coord wrapper.
None == [kind |-> "none"]
Panic == [kind |-> "panic"]
Some(v, t) == [kind |-> "some", v |-> v, t |-> t]

\* A non-finite intermediate value panics under a checking wrapper.
NonFinite(vals) == nan_panics /\ \E a \in vals : a.nan

\* A slip of sign in the last term of the discriminant.
DiscriminantSignSlip(x, y, g, s) ==
    FAdd(FAdd(FMul(FMul(FMul(s, s), s), s),
              FMul(FMul(FMul(FMul(New(2), g), y), s), s)),
         FMul(FMul(FMul(g, g), x), x))

\* root, before the square root
Discriminant(x, y, g, s) ==
    FSub(FAdd(FMul(FMul(FMul(s, s), s), s),
              FMul(FMul(FMul(FMul(New(2), g), y), s), s)),
         FMul(FMul(FMul(g, g), x), x))

\* mult without its division by two.
MultWithoutHalf(x, y) ==
    FDiv(FMul(x, x), FAdd(FMul(x, x), FMul(y, y)))

Mult(x, y) ==
    FDiv(FDiv(FMul(x, x), New(2)), FAdd(FMul(x, x), FMul(y, y)))

Term(y, g, s) == FAdd(FMul(g, y), FMul(s, s))

\* The last map of the chain: vy from the vertical equation.
VyAt(t, y, g) ==
    FDiv(FSub(FMul(New(2), y), FMul(FMul(g, t), t)), FMul(New(2), t))

WithTime(vx, t, y, g) ==
    IF NonFinite({vx, t, VyAt(t, y, g)}) THEN Panic
    ELSE Some(<<vx, VyAt(t, y, g)>>, t)

\* One element of the iterator chain: the filter, the signed square root,
\* then t = x / vx.
SignedRoot(vx, x, y, g) == WithTime(vx, FDiv(x, vx), y, g)

\* The filter letting a zero root through.
CandidateNonNegative(v, x, y, g) ==
    IF FLt(v, Zero) \/ v.nan THEN None
    ELSE SignedRoot(FMul(FSqrt(v), FSignum(x)), x, y, g)

Candidate(v, x, y, g) ==
    IF ~FGt(v, Zero) THEN None
    ELSE SignedRoot(FMul(FSqrt(v), FSignum(x)), x, y, g)

\* min_by_key(|(_, t)| *t) over the surviving candidates, the first on a tie.
MinByTime(c1, c2) ==
    CASE c1.kind = "panic" \/ c2.kind = "panic" -> Panic
      [] c1.kind = "none" -> c2
      [] c2.kind = "none" -> c1
      [] OTHER -> IF FLt(c2.t, c1.t) THEN c2 ELSE c1

\* [v1, v2] and the chain over them.
Velocities2(v1, v2, x, y, g) ==
    IF NonFinite({v1, v2}) THEN Panic
    ELSE MinByTime(Candidate(v1, x, y, g), Candidate(v2, x, y, g))

Solutions(rt, mult, term, x, y, g) ==
    IF NonFinite({rt, mult, term}) THEN Panic
    ELSE Velocities2(FMul(mult, FAdd(term, rt)), FMul(mult, FSub(term, rt)),
                     x, y, g)

\* The guard on the discriminant, then the two roots.
FromRoot(root, x, y, g, s) ==
    IF NonFinite({root}) THEN Panic
    ELSE IF FLt(root, Zero) THEN None
    ELSE Solutions(FSqrt(root), Mult(x, y), Term(y, g, s), x, y, g)

aim_parabollically(delta_pos, gravity, speed) ==
    FromRoot(Discriminant(delta_pos[1], delta_pos[2], gravity, speed),
             delta_pos[1], delta_pos[2], gravity, speed)

\* ------------------------------------------------------------------ vectors
VAddI(a, b) == <<a[1] + b[1], a[2] + b[2]>>
ToF(p) == <<New(p[1]), New(p[2])>>
VAdd(a, b) == <<FAdd(a[1], b[1]), FAdd(a[2], b[2])>>
VSub(a, b) == <<FSub(a[1], b[1]), FSub(a[2], b[2])>>
VScale(a, k) == <<FMul(a[1], k), FMul(a[2], k)>>
VLen(a) == FSqrt(FAdd(FMul(a[1], a[1]), FMul(a[2], a[2])))

\* approx_eq against zero: closer than an epsilon far below every value here.
ApproxZero(a) == a.m = 0

\* normalize_or_zero: the zero vector for a zero-length one.
NormalizeOrZero(a) ==
    LET len == VLen(a)
    IN  IF ApproxZero(len) THEN <<Zero, Zero>>
        ELSE <<FDiv(a[1], len), FDiv(a[2], len)>>

\* rotate, for the quarter turns the units here are rendered with.
Rotate(v, quarter) == IF quarter % 2 = 0 THEN v ELSE <<-v[2], v[1]>>

\* signum of a whole-number Coord: 1 for zero too (f32::signum of +0.0).
Signum(n) == IF n < 0 THEN -1 ELSE 1

\* ------------------------------------------------------------------ effects
Noop == [kind |-> "Noop"]
DamageTypes == {"Physical", "Energy", "Explosive"}
Damage(damage_type, value) ==
    [kind |-> "Damage", damage_type |-> damage_type, value |-> value]
Heal(value) == [kind |-> "Heal", value |-> value]
Dash(speed, duration, on_contact) ==
    [kind |-> "Dash", speed |-> speed, duration |-> duration,
     on_contact |-> on_contact]
Projectile(offset, ai, speed, on_hit, animation) ==
    [kind |-> "Projectile", offset |-> offset, ai |-> ai, speed |-> speed,
     on_hit |-> on_hit, animation |-> animation]

\* ----------------------------------------------------------------- entities
Health(hp, max_hp) == [hp |-> hp, max_hp |-> max_hp]

\* Health::change: the health type's own clamping.
HealthChange(health, delta) ==
    LET sum == health.hp + delta
    IN  [health EXCEPT !.hp = IF sum < 0 THEN 0
                              ELSE IF sum > health.max_hp THEN health.max_hp
                              ELSE sum]

NoExtraRender == [kind |-> "None"]
Tank(rotation) ==
    [kind |-> "Tank", hand_pos |-> <<0, 1>>, weapon_pos |-> <<1, 0>>,
     shoot_pos |-> <<1, 0>>, rotation |-> rotation]

Charge(time, on_contact) ==
    [kind |-> "Charge", time |-> time, on_contact |-> on_contact]

\* IdGen::gen: the next id, never issued before.
IdGen_gen(id_gen) == [id |-> id_gen, id_gen |-> id_gen + 1]

\* ------------------------------------------------------- context resolution
Caster == "Caster"
Target == "Target"
WhoId(who, context) == IF who = Caster THEN context.caster ELSE context.target

\* EffectContext::get: the unit playing the role, if it is alive.
get(who, context, m) ==
    IF WhoId(who, context) \in DOMAIN m.units
    THEN [found |-> TRUE, id |-> WhoId(who, context)]
    ELSE [found |-> FALSE]

\* How a call ends: it returns, it returns early without acting (the ? of
\* ProjectileEffect::process), or it panics (an expect on a missing unit, a
\* non-finite Coord). aim is the path the two solver passes took, if any.
NoAim == <<"-", "-">>
Returned(m) == [model |-> m, outcome |-> "returned", aim |-> NoAim]
Aborted(m) == [model |-> m, outcome |-> "aborted", aim |-> NoAim]
Panicked(m) == [model |-> m, outcome |-> "panicked", aim |-> NoAim]

\* --------------------------------------------------------------- processors
ProjectileLifetime == 10

\* The target's position after `time`, seen from the muzzle.
Extrapolated(pos, target, time) ==
    VSub(VAdd(ToF(target.position), VScale(ToF(target.velocity), time)), pos)

\* The straight-line estimate of the flight time.
FirstTime(pos, target, speed) ==
    IF ApproxZero(speed) THEN Zero
    ELSE FDiv(VLen(VSub(ToF(target.position), pos)), speed)

\* options.and_then(...): the second pass, aimed with the first pass's time.
SecondPass(first, pos, target, gravity, speed) ==
    IF first.kind = "some"
    THEN aim_parabollically(Extrapolated(pos, target, first.t), gravity, speed)
    ELSE first

\* The velocity: the solver's, or the straight line to the first target_pos.
Velocity(first, second, delta, speed) ==
    [panic    |-> second.kind = "panic",
     path     |-> <<first.kind, second.kind>>,
     velocity |-> IF second.kind = "some" THEN second.v
                  ELSE VScale(NormalizeOrZero(delta), speed)]

Passes(first, delta, pos, target, gravity, speed) ==
    Velocity(first, SecondPass(first, pos, target, gravity, speed), delta, speed)

FirstPass(delta, pos, target, gravity, speed) ==
    Passes(aim_parabollically(delta, gravity, speed), delta, pos, target,
           gravity, speed)

\* The two-pass predictive aim, with the path it took.
ProjectileAim(self, position, target, gravity) ==
    FirstPass(Extrapolated(ToF(position), target,
                           FirstTime(ToF(position), target, New(self.speed))),
              ToF(position), target, New(gravity), New(self.speed))

FlipX(offset, flip_sprite) ==
    IF flip_sprite THEN <<-offset[1], offset[2]>> ELSE offset

\* The muzzle, relative to the caster.
MuzzleOffset(self, caster) ==
    FlipX(IF caster.extra_render.kind = "Tank"
          THEN VAddI(caster.extra_render.hand_pos,
                     Rotate(VAddI(caster.extra_render.weapon_pos,
                                  caster.extra_render.shoot_pos),
                            caster.extra_render.rotation))
          ELSE self.offset,
          caster.flip_sprite)

\* logic.model.projectiles.insert(Projectile { .. }), unless the aim panicked.
Spawn(self, context, m, position, aimed) ==
    IF aimed.panic
    THEN [model |-> m, outcome |-> "panicked", aim |-> aimed.path]
    ELSE [model |->
            [m EXCEPT
               !.id_gen = IdGen_gen(m.id_gen).id_gen,
               !.projectiles = @ \cup
                 {[id |-> IdGen_gen(m.id_gen).id,
                   animation_state |-> self.animation,
                   ai |-> self.ai,
                   lifetime |-> ProjectileLifetime,
                   collider |-> [kind |-> "Aabb", size |-> <<1, 1>>],
                   on_hit |-> self.on_hit,
                   caster |-> context.caster,
                   target |-> context.target,
                   position |-> position,
                   velocity |-> aimed.velocity]}],
          outcome |-> "returned",
          aim |-> aimed.path]

Launch(self, context, m, position) ==
    Spawn(self, context, m, position,
          ProjectileAim(self, position, m.units[context.target], m.gravity))

\* The Target looked up like the Caster: a panic when it is missing.
ProjectileExpectsTarget(self, context, m) ==
    IF ~get(Caster, context, m).found \/ ~get(Target, context, m).found
    THEN Panicked(m)
    ELSE Launch(self, context, m,
                VAddI(MuzzleOffset(self, m.units[context.caster]),
                      m.units[context.caster].position))

ProjectileEffect_process(self, context, m) ==
    IF ~get(Caster, context, m).found THEN Panicked(m)
    ELSE IF ~get(Target, context, m).found
    THEN Aborted(m)
    ELSE Launch(self, context, m,
                VAddI(MuzzleOffset(self, m.units[context.caster]),
                      m.units[context.caster].position))

\* The damage type taken into account: an explosion hits twice as hard.
DamageByType(self, context, m) ==
    IF ~get(Target, context, m).found THEN Panicked(m)
    ELSE Returned([m EXCEPT !.units[context.target].health =
                                HealthChange(@, IF self.damage_type = "Explosive"
                                                THEN -2 * self.value
                                                ELSE -self.value)])

DamageEffect_process(self, context, m) ==
    IF ~get(Target, context, m).found THEN Panicked(m)
    ELSE Returned([m EXCEPT !.units[context.target].health =
                                HealthChange(@, -self.value)])

\* The particle made to follow the caster.
HealFollowsCaster(self, context, m) ==
    IF ~get(Target, context, m).found THEN Panicked(m)
    ELSE Returned([m EXCEPT
                     !.units[context.target].health = HealthChange(@, self.value),
                     !.id_gen = IdGen_gen(m.id_gen).id_gen,
                     !.particles = @ \cup
                       {[id |-> IdGen_gen(m.id_gen).id,
                         alive |-> TRUE,
                         follow_unit |-> context.caster,
                         position |-> m.units[context.target].position,
                         animation_state |-> "heal"]}])

HealEffect_process(self, context, m) ==
    IF ~get(Target, context, m).found THEN Panicked(m)
    ELSE Returned([m EXCEPT
                     !.units[context.target].health = HealthChange(@, self.value),
                     !.id_gen = IdGen_gen(m.id_gen).id_gen,
                     !.particles = @ \cup
                       {[id |-> IdGen_gen(m.id_gen).id,
                         alive |-> TRUE,
                         follow_unit |-> context.target,
                         position |-> m.units[context.target].position,
                         animation_state |-> "heal"]}])

\* target_dir: toward the target if it resolved, else the caster's facing.
TargetDir(target, caster, m) ==
    IF target.found
    THEN Signum(m.units[target.id].position[1] - caster.position[1])
    ELSE IF caster.flip_sprite THEN -1 ELSE 1

\* The caster's new velocity and its Charge status.
Charging(self, context, m, target_dir) ==
    Returned([m EXCEPT
                !.units[context.caster].velocity = <<target_dir * self.speed, 0>>,
                !.units[context.caster].statuses =
                    Append(@, Charge(self.duration, self.on_contact))])

\* The dash given up when the Target is missing.
DashAbortsWithoutTarget(self, context, m) ==
    IF ~get(Caster, context, m).found THEN Panicked(m)
    ELSE IF ~get(Target, context, m).found THEN Aborted(m)
    ELSE Charging(self, context, m,
                  TargetDir(get(Target, context, m), m.units[context.caster], m))

\* A nested Damage run by the call that processes the dash.
DashRunsOnContact(self, context, m) ==
    IF ~get(Caster, context, m).found THEN Panicked(m)
    ELSE IF self.on_contact.kind = "Damage" /\ get(Target, context, m).found
    THEN DamageEffect_process(
             self.on_contact, context,
             Charging(self, context, m,
                      TargetDir(get(Target, context, m),
                                m.units[context.caster], m)).model)
    ELSE Charging(self, context, m,
                  TargetDir(get(Target, context, m), m.units[context.caster], m))

\* The caster's facing ignored when the Target is missing.
DashIgnoresFacing(self, context, m) ==
    IF ~get(Caster, context, m).found THEN Panicked(m)
    ELSE Charging(self, context, m,
                  IF get(Target, context, m).found
                  THEN TargetDir(get(Target, context, m),
                                 m.units[context.caster], m)
                  ELSE 1)

DashEffect_process(self, context, m) ==
    IF ~get(Caster, context, m).found THEN Panicked(m)
    ELSE Charging(self, context, m,
                  TargetDir(get(Target, context, m), m.units[context.caster], m))

Effect_process(self, context, m) ==
    CASE self.kind = "Noop" -> Returned(m)
      [] self.kind = "Projectile" -> ProjectileEffect_process(self, context, m)
      [] self.kind = "Damage" -> DamageEffect_process(self, context, m)
      [] self.kind = "Heal" -> HealEffect_process(self, context, m)
      [] self.kind = "Dash" -> DashEffect_process(self, context, m)

\* ------------------------------------------------------------------- inputs
MaxHp == 3
UnitIds == {1, 2}
Values == {1, 2}
Speeds == {0, 1, 2}
Durations == {1, 2}
Offsets == {<<0, 0>>, <<1, 1>>}
PositionXs == {0, 2}
Velocities == {<<0, 0>>, <<3, 0>>}
Gravities == {-1}

\* Effects carried inside other effects, up to three levels deep.
NestedEffects ==
    {Noop, Damage("Energy", 1),
     Dash(1, 1, Projectile(<<1, 1>>, "rocket", 2, Heal(1), "rocket"))}

Effects ==
    {Noop}
    \cup {Damage(t, v) : t \in DamageTypes, v \in Values}
    \cup {Heal(v) : v \in Values}
    \cup {Dash(s, d, e) : s \in Speeds \ {0}, d \in Durations, e \in NestedEffects}
    \cup {Projectile(o, "rocket", s, e, "rocket") :
            o \in Offsets, s \in Speeds, e \in NestedEffects}

Contexts == [caster : UnitIds, target : UnitIds]

\* The states a unit can be in: unit 1 is rendered plainly, unit 2 is a tank
\* in the middle of a charge.
Units(id) ==
    [health : {Health(MaxHp - 1, MaxHp)},
     position : {<<x, 0>> : x \in PositionXs},
     velocity : Velocities,
     statuses : {IF id = 1 THEN <<>> ELSE <<Charge(1, Noop)>>},
     flip_sprite : BOOLEAN,
     extra_render : {IF id = 1 THEN NoExtraRender ELSE Tank(1)}]

NoCall == [called |-> FALSE, effect |-> Noop,
           context |-> [caster |-> 1, target |-> 1],
           outcome |-> "none", aim |-> NoAim]

\* ------------------------------------------------------------ specification
Init ==
    /\ \E live \in {{1}, UnitIds} :
         \E us \in {f \in [live -> UNION {Units(i) : i \in live}] :
                       \A i \in live : f[i] \in Units(i)} :
           \E g \in Gravities :
             model = [units |-> us,
                      projectiles |-> {},
                      particles |-> {[id |-> Cardinality(UnitIds) + 1, alive |-> TRUE,
                                      follow_unit |-> 1,
                                      position |-> us[1].position,
                                      animation_state |-> "heal"]},
                      id_gen |-> Cardinality(UnitIds) + 2,
                      gravity |-> g]
    /\ pre = model
    /\ last = NoCall
    /\ nan_panics \in BOOLEAN
    /\ aimIn = [dx |-> 0, dy |-> 0, g |-> 0, s |-> 0]
    /\ aimOut = None
    /\ aimDone = FALSE

\* What one Effect::process call leaves behind: r is what the call came to.
Called(self, context, r) ==
    /\ model' = r.model
    /\ last' = [called |-> TRUE, effect |-> self, context |-> context,
                outcome |-> r.outcome, aim |-> r.aim]
    /\ pre' = model
    /\ UNCHANGED <<nan_panics, aimIn, aimOut, aimDone>>

OfKind(kind) == {e \in Effects : e.kind = kind}

\* One Effect::process call, to its return or its panic, per variant. The
\* properties below are contracts of a single call, so a behaviour is one call
\* made in one state of the simulation.
ProcessNoop ==
    /\ ~last.called
    /\ \E c \in Contexts : Called(Noop, c, Effect_process(Noop, c, model))

ProcessProjectile ==
    /\ ~last.called
    /\ \E e \in OfKind("Projectile"), c \in Contexts :
         Called(e, c, Effect_process(e, c, model))

ProcessDamage ==
    /\ ~last.called
    /\ \E e \in OfKind("Damage"), c \in Contexts :
         Called(e, c, Effect_process(e, c, model))

ProcessHeal ==
    /\ ~last.called
    /\ \E e \in OfKind("Heal"), c \in Contexts :
         Called(e, c, Effect_process(e, c, model))

ProcessDash ==
    /\ ~last.called
    /\ \E e \in OfKind("Dash"), c \in Contexts :
         Called(e, c, Effect_process(e, c, model))

Next ==
    \/ ProcessNoop
    \/ ProcessProjectile
    \/ ProcessDamage
    \/ ProcessHeal
    \/ ProcessDash

Spec == Init /\ [][Next]_vars

\* ------------------------------------------------------------ solver runs
MaxDelta == 3
MaxAimSpeed == 3
AimGravities == {-2, -1, 0}
Example == [dx |-> 10, dy |-> 0, g |-> -1, s |-> 5]
AimInputs ==
    [dx : -MaxDelta..MaxDelta, dy : -MaxDelta..MaxDelta,
     g : AimGravities, s : 0..MaxAimSpeed] \cup {Example}

InitAim ==
    /\ model = [units |-> <<>>, projectiles |-> {}, particles |-> {},
                id_gen |-> 1, gravity |-> 0]
    /\ pre = model
    /\ last = NoCall
    /\ nan_panics \in BOOLEAN
    /\ aimIn \in AimInputs
    /\ aimOut = None
    /\ aimDone = FALSE

Solve ==
    /\ ~aimDone
    /\ aimOut' = aim_parabollically(<<New(aimIn.dx), New(aimIn.dy)>>,
                                    New(aimIn.g), New(aimIn.s))
    /\ aimDone' = TRUE
    /\ UNCHANGED <<model, pre, last, nan_panics, aimIn>>

NextAim == Solve

SpecAim == InitAim /\ [][NextAim]_vars

\* --------------------------------------------------------------- properties
\* The last call: its effect, its roles, and whether they resolved when made.
CasterLive == last.context.caster \in DOMAIN pre.units
TargetLive == last.context.target \in DOMAIN pre.units
CalledKind(kind) == last.called /\ last.effect.kind = kind

\* The ids of every entity of a model state.
UsedIds(m) ==
    DOMAIN m.units \cup {p.id : p \in m.projectiles}
                   \cup {p.id : p \in m.particles}

\* C1: a Projectile effect whose Caster resolves and whose Target does not
\* returns without failure and leaves the whole simulation state as it was: no
\* projectile, no id drawn, no unit, particle or status touched.
C1_ProjectileWithoutTarget ==
    (CalledKind("Projectile") /\ CasterLive /\ ~TargetLive)
        => /\ last.outcome = "aborted"
           /\ model = pre

C1_Witness ==
    /\ CalledKind("Projectile") /\ CasterLive /\ ~TargetLive
    /\ last.outcome = "aborted"
    /\ pre.particles # {}

\* C2 as stated: every variant aborts without a crash and without any change
\* when the Target does not resolve.
C2_EveryVariantAborts ==
    (last.called /\ last.effect.kind \in {"Damage", "Heal", "Dash", "Projectile"}
        /\ CasterLive /\ ~TargetLive)
        => /\ last.outcome # "panicked"
           /\ model = pre

\* C2, amended: when the Target does not resolve (and the Caster does), only
\* Projectile aborts without a change; Damage and Heal panic on their hard
\* lookup of the Target, before any change; Dash does not abort: it returns
\* having set the caster's velocity and appended a Charge status.
C2_MissingTargetByVariant ==
    (last.called /\ CasterLive /\ ~TargetLive)
        => /\ last.effect.kind = "Projectile"
                => last.outcome = "aborted" /\ model = pre
           /\ last.effect.kind \in {"Damage", "Heal"}
                => last.outcome = "panicked" /\ model = pre
           /\ last.effect.kind = "Dash"
                => /\ last.outcome = "returned"
                   /\ Len(model.units[last.context.caster].statuses)
                        = Len(pre.units[last.context.caster].statuses) + 1
                   /\ model.units[last.context.caster].velocity =
                        <<(IF pre.units[last.context.caster].flip_sprite
                           THEN -1 ELSE 1) * last.effect.speed, 0>>

C2_Witness ==
    /\ CalledKind("Dash") /\ CasterLive /\ ~TargetLive
    /\ last.outcome = "returned"
    /\ model # pre

\* C3: the call that processes a Projectile or a Dash effect does not run the
\* effect nested in it: on_hit is stored as given on the one projectile
\* spawned, on_contact as given in the Charge status appended to the caster,
\* and the state shows nothing a nested effect would do: no health changed, no
\* further id drawn, no particle, no further projectile or status.
C3_NestedEffectsInert ==
    /\ (CalledKind("Projectile") /\ last.outcome = "returned")
         => /\ \E p \in model.projectiles :
                 /\ model.projectiles = pre.projectiles \cup {p}
                 /\ p \notin pre.projectiles
                 /\ p.on_hit = last.effect.on_hit
            /\ model.units = pre.units
            /\ model.particles = pre.particles
            /\ model.id_gen = pre.id_gen + 1
    /\ (CalledKind("Dash") /\ last.outcome = "returned")
         => /\ model.units[last.context.caster].statuses =
                 Append(pre.units[last.context.caster].statuses,
                        Charge(last.effect.duration, last.effect.on_contact))
            /\ \A u \in DOMAIN pre.units :
                 /\ model.units[u].health = pre.units[u].health
                 /\ u # last.context.caster => model.units[u] = pre.units[u]
            /\ model.projectiles = pre.projectiles
            /\ model.particles = pre.particles
            /\ model.id_gen = pre.id_gen

C3_Witness ==
    /\ CalledKind("Dash") /\ last.outcome = "returned" /\ TargetLive
    /\ last.effect.on_contact.kind = "Damage"
    /\ Len(model.units[last.context.caster].statuses) = 2

\* C4: a Damage effect with a live Target passes exactly -value to the
\* target's health, whatever its damage type, and changes nothing else.
C4_DamageFrame ==
    (CalledKind("Damage") /\ TargetLive)
        => /\ last.outcome = "returned"
           /\ model = [pre EXCEPT !.units[last.context.target].health =
                                      HealthChange(@, -last.effect.value)]

C4_Witness ==
    /\ CalledKind("Damage") /\ TargetLive
    /\ last.effect.damage_type = "Explosive"
    /\ model.units[last.context.target].health.hp
         = pre.units[last.context.target].health.hp - last.effect.value

\* C5: a Heal effect with a live Target passes exactly +value to the target's
\* health and inserts exactly one particle: its id is used by no entity that
\* existed, it is alive, follows the context's target and sits at the target's
\* position; no other unit field changes and no projectile is inserted.
C5_HealParticle ==
    (CalledKind("Heal") /\ TargetLive)
        => /\ last.outcome = "returned"
           /\ model.units = [pre.units EXCEPT ![last.context.target].health =
                                                  HealthChange(@, last.effect.value)]
           /\ model.projectiles = pre.projectiles
           /\ \E p \in model.particles :
                /\ model.particles = pre.particles \cup {p}
                /\ p \notin pre.particles
                /\ p.id \notin UsedIds(pre)
                /\ p.alive
                /\ p.follow_unit = last.context.target
                /\ p.position = pre.units[last.context.target].position

C5_Witness ==
    /\ CalledKind("Heal") /\ TargetLive
    /\ last.context.target # last.context.caster
    /\ Cardinality(model.particles) = Cardinality(pre.particles) + 1
    /\ model.units[last.context.target].health.hp
         = pre.units[last.context.target].health.hp + last.effect.value

\* The direction of a dash: the sign of target.x - caster.x (signum: +1 for a
\* zero difference) when the Target resolves, the caster's facing otherwise.
DashDirection ==
    IF TargetLive
    THEN IF pre.units[last.context.target].position[1]
              < pre.units[last.context.caster].position[1] THEN -1 ELSE 1
    ELSE IF pre.units[last.context.caster].flip_sprite THEN -1 ELSE 1

\* C6: a Dash effect sets the caster's velocity to (d * speed, 0) and appends
\* exactly one Charge status with the effect's duration and on_contact to the
\* end of the caster's status list; the caster's position and health, its
\* earlier statuses and every other unit stay as they were.
C6_Dash ==
    (CalledKind("Dash") /\ CasterLive)
        => /\ last.outcome = "returned"
           /\ model = [pre EXCEPT
                         !.units[last.context.caster].velocity =
                             <<DashDirection * last.effect.speed, 0>>,
                         !.units[last.context.caster].statuses =
                             Append(@, Charge(last.effect.duration,
                                              last.effect.on_contact))]

C6_Witness ==
    /\ CalledKind("Dash") /\ CasterLive /\ ~TargetLive
    /\ pre.units[last.context.caster].flip_sprite
    /\ model.units[last.context.caster].velocity = <<-last.effect.speed, 0>>

\* C7: a Projectile effect whose Caster and Target both resolve always inserts
\* exactly one projectile, whatever the solver finds: a fresh id, lifetime 10,
\* a 1x1 AABB collider, the effect's AI tag and on_hit, the context's caster
\* and target, at the caster's position plus the mirrored muzzle offset; no
\* unit is modified.
C7_AlwaysSpawns ==
    (CalledKind("Projectile") /\ CasterLive /\ TargetLive)
        => /\ last.outcome = "returned"
           /\ model.units = pre.units
           /\ \E p \in model.projectiles :
                /\ model.projectiles = pre.projectiles \cup {p}
                /\ p \notin pre.projectiles
                /\ p.id \notin UsedIds(pre)
                /\ p.lifetime = 10
                /\ p.collider = [kind |-> "Aabb", size |-> <<1, 1>>]
                /\ p.ai = last.effect.ai
                /\ p.on_hit = last.effect.on_hit
                /\ p.caster = last.context.caster
                /\ p.target = last.context.target
                /\ p.position =
                     VAddI(MuzzleOffset(last.effect,
                                        pre.units[last.context.caster]),
                           pre.units[last.context.caster].position)

\* The discriminant s^4 + 2*g*dy*s^2 - g^2*dx^2 of a solver call, exactly.
Disc(in) ==
    in.s * in.s * in.s * in.s + 2 * in.g * in.dy * in.s * in.s
        - in.g * in.g * in.dx * in.dx

\* C8: aim_parabollically returns no solution whenever the discriminant is
\* negative.
C8_NegativeDiscriminant ==
    (aimDone /\ Disc(aimIn) < 0) => aimOut = None

C8_Witness ==
    aimDone /\ Disc(aimIn) < 0 /\ aimIn.dy # 0 /\ aimOut = None

\* a = b within a relative tolerance of 1/1024.
Close(a, b) ==
    FLe(FMul(FAbs(FSub(a, b)), New(1024)),
        FAdd(New(1), FAdd(FAbs(a), FAbs(b))))

\* C9: every (v, t) the solver returns solves the system: v.x * t = dx,
\* v.y * t + g * t^2 / 2 = dy, and so v.x^2 + v.y^2 = s^2, within tolerance.
C9_SolvesSystem ==
    (aimDone /\ aimOut.kind = "some")
        => /\ Disc(aimIn) >= 0
           /\ Close(FMul(aimOut.v[1], aimOut.t), New(aimIn.dx))
           /\ Close(FAdd(FMul(aimOut.v[2], aimOut.t),
                         FDiv(FMul(New(aimIn.g), FMul(aimOut.t, aimOut.t)),
                              New(2))),
                    New(aimIn.dy))
           /\ Close(FAdd(FMul(aimOut.v[1], aimOut.v[1]),
                         FMul(aimOut.v[2], aimOut.v[2])),
                    New(aimIn.s * aimIn.s))

C9_Witness ==
    aimDone /\ aimIn = Example /\ aimOut.kind = "some"

\* C10: with dx = 0 and dy # 0 the solver returns no solution, for every
\* gravity and speed: both roots are zero and the strictly-positive filter
\* drops them, so no division by vx = 0 is made; and every flight time that is
\* returned is strictly positive (with a non-zero vx).
C10_VerticalShot ==
    /\ (aimDone /\ aimIn.dx = 0 /\ aimIn.dy # 0) => aimOut = None
    /\ (aimDone /\ aimOut.kind = "some")
         => FGt(aimOut.t, Zero) /\ aimOut.v[1].m # 0

C10_Witness ==
    aimDone /\ aimIn.dx = 0 /\ aimIn.dy # 0 /\ Disc(aimIn) > 0 /\ aimOut = None
====
